---- MODULE Spec2Model ----
(***************************************************************************)
(* Model of accelerated_segments_ffmpeg.py: the VideoTimestamp value type, *)
(* the velocity policy get_vel and the planner/dispatcher process_video.   *)
(*                                                                         *)
(* Strings are sequences of one-character strings, so that parsing,        *)
(* splitting and formatting are computed rather than assumed.              *)
(***************************************************************************)
EXTENDS Integers, Sequences, FiniteSets, TLC

VARIABLES
    \* process_video: parameters, file system, position and locals
    timestamps, rest_time_arg, files, pc, i, rest_time, vt1, vt2, vel,
    rest_to_ts, cmd_rest_seg, cmd_vel_seg, calls, checks, error,
    \* VideoTimestamp(text) applied to one text
    text, parsed,
    \* (a - b) + b
    ta, tb, tdiff, tsum,
    \* get_vel(gv1, gv2)
    gv1, gv2, gres

procVars  == <<timestamps, rest_time_arg, files, pc, i, rest_time, vt1, vt2,
               vel, rest_to_ts, cmd_rest_seg, cmd_vel_seg, calls, checks, error>>
parseVars == <<text, parsed>>
arithVars == <<ta, tb, tdiff, tsum>>
velVars   == <<gv1, gv2, gres>>
vars      == <<procVars, parseVars, arithVars, velVars>>

----------------------------------------------------------------------------
(* Bounds of the model *)

\* longest text handed to VideoTimestamp(text) in SpecParse
MaxLen == 6
\* largest number of entries of the timestamps list given to process_video
MaxStamps == 3
\* largest total_seconds of the arguments of get_vel in SpecVel
MaxSeconds == 45
\* largest hour / minute / second field of the operands in SpecArith
MaxHour == 1
MaxMinute == 1
MaxSecond == 2

----------------------------------------------------------------------------
(* Strings *)

DigitChars == <<"0", "1", "2", "3", "4", "5", "6", "7", "8", "9">>

IsDigit(c) == \E k \in 1..10 : DigitChars[k] = c

DigitVal(c) == (CHOOSE k \in 1..10 : DigitChars[k] = c) - 1

Abs(n) == IF n < 0 THEN -n ELSE n

\* str.replace(ch, "") for a one-character ch
Replace(s, ch) == SelectSeq(s, LAMBDA c : c # ch)

\* str.split(":")
RECURSIVE Split(_)
Split(s) ==
    IF \A k \in 1..Len(s) : s[k] # ":"
    THEN <<s>>
    ELSE LET k == CHOOSE k \in 1..Len(s) :
                      /\ s[k] = ":"
                      /\ \A j \in 1..(k - 1) : s[j] # ":"
         IN  <<SubSeq(s, 1, k - 1)>> \o Split(SubSeq(s, k + 1, Len(s)))

\* the unsigned decimal value of a string of digits
RECURSIVE DecVal(_)
DecVal(s) ==
    IF Len(s) = 0 THEN 0
    ELSE 10 * DecVal(SubSeq(s, 1, Len(s) - 1)) + DigitVal(s[Len(s)])

\* whether int(s) succeeds: an optional sign and at least one digit
IntOk(s) ==
    LET body == IF Len(s) > 0 /\ s[1] \in {"+", "-"} THEN Tail(s) ELSE s
    IN  /\ Len(body) > 0
        /\ \A k \in 1..Len(body) : IsDigit(body[k])

\* int(s) where IntOk(s)
IntOf(s) ==
    IF s[1] = "-" THEN -DecVal(Tail(s))
    ELSE IF s[1] = "+" THEN DecVal(Tail(s))
    ELSE DecVal(s)

\* str(n) for n >= 0
RECURSIVE Digits(_)
Digits(n) ==
    IF n < 10 THEN <<DigitChars[n + 1]>>
    ELSE Digits(n \div 10) \o <<DigitChars[(n % 10) + 1]>>

\* f"{n:02d}"
Fmt02d(n) ==
    IF n < 0 THEN <<"-">> \o Digits(-n)
    ELSE IF n < 10 THEN <<"0">> \o Digits(n)
    ELSE Digits(n)

----------------------------------------------------------------------------
(* VideoTimestamp *)

\* the value of the fields before a constructor has set them
NoVt == [timestamp |-> <<>>, type |-> "none", hour |-> 0, minute |-> 0,
         second |-> 0, orientation |-> "none"]

\* __post_init__ when hour, minute, second and type are all given
FromFields(type, hour, minute, second, orientation) ==
    LET leading_char == IF type # "|" THEN <<type>> ELSE <<>>
    IN  [timestamp   |-> leading_char \o Fmt02d(hour) \o <<":">>
                           \o Fmt02d(minute) \o <<":">> \o Fmt02d(second),
         type        |-> type,
         hour        |-> hour,
         minute      |-> minute,
         second      |-> second,
         orientation |-> orientation]

\* lines 33-37 of __post_init__: the three fields of the split text are read
\* in turn; int() raises ValueError, which is caught and raised again as
\* ValueError, and a missing field raises IndexError, which is not caught.
\* err is "none", or the kind of the exception that leaves the constructor.
ParseFields(type, rest, split) ==
    IF ~IntOk(split[1]) THEN [err |-> "ValueError", vt |-> NoVt]
    ELSE IF Len(split) < 2 THEN [err |-> "IndexError", vt |-> NoVt]
    ELSE IF ~IntOk(split[2]) THEN [err |-> "ValueError", vt |-> NoVt]
    ELSE IF Len(split) < 3 THEN [err |-> "IndexError", vt |-> NoVt]
    ELSE IF ~IntOk(split[3]) THEN [err |-> "ValueError", vt |-> NoVt]
    ELSE [err |-> "none",
          vt  |-> [timestamp   |-> rest,
                   type        |-> type,
                   hour        |-> IntOf(split[1]),
                   minute      |-> IntOf(split[2]),
                   second      |-> IntOf(split[3]),
                   orientation |-> "positive"]]

\* lines 27-32 of __post_init__ with a text whose first character is first:
\* the type is that character if it is one of + - |, and | otherwise; every
\* occurrence of the type character is removed before the text is split
ParseTyped(txt, type) ==
    ParseFields(type, Replace(txt, type), Split(Replace(txt, type)))

\* __post_init__ when only the timestamp string is given: VideoTimestamp(txt).
\* The empty text raises IndexError at self.timestamp[0].
VideoTimestamp(txt) ==
    IF Len(txt) = 0
    THEN [err |-> "IndexError", vt |-> NoVt]
    ELSE ParseTyped(txt, IF txt[1] \in {"+", "-", "|"} THEN txt[1] ELSE "|")

from_seconds(seconds) ==
    LET orientation == IF seconds < 0 THEN "negative" ELSE "positive"
        n == Abs(seconds)
    IN  FromFields("|", n \div 3600, (n % 3600) \div 60, n % 60, orientation)

total_seconds(vt) == vt.hour * 3600 + vt.minute * 60 + vt.second

\* plus with the body of minus
plus_copied_from_minus(a, b) == from_seconds(total_seconds(a) - total_seconds(b))

plus(a, b) == from_seconds(total_seconds(a) + total_seconds(b))

minus(a, b) == from_seconds(total_seconds(a) - total_seconds(b))

\* __le__: self < other or self == other
le(a, b) ==
    \/ total_seconds(a) < total_seconds(b)
    \/ total_seconds(a) = total_seconds(b)

----------------------------------------------------------------------------
(* Texts used by the program and by the bounded inputs *)

T_00_00_00 == <<"0", "0", ":", "0", "0", ":", "0", "0">>
T_00_00_05 == <<"0", "0", ":", "0", "0", ":", "0", "5">>
T_00_00_10 == <<"0", "0", ":", "0", "0", ":", "1", "0">>
T_00_00_25 == <<"0", "0", ":", "0", "0", ":", "2", "5">>
T_00_00_30 == <<"0", "0", ":", "0", "0", ":", "3", "0">>
T_00_00_45 == <<"0", "0", ":", "0", "0", ":", "4", "5">>
T_01_00_00 == <<"0", "1", ":", "0", "0", ":", "0", "0">>
T_short    == <<"1", ":", "2">>
T_letters  == <<"a", ":", "0", ":", "0">>

----------------------------------------------------------------------------
(* get_vel and ffmpeg_cmd *)

\* default of the parameter min_speed_duration
min_speed_duration == T_00_00_10

\* default of the parameter max_speed_duration
max_speed_duration == T_00_00_30

\* the cap process_video puts on the velocity
VelCap == 70

\* the duration below which a pair gets one rest segment only, and above which
\* it gets an accelerated segment
RestThreshold == 25

\* min_speed_duration = VideoTimestamp(min_speed_duration)
min_speed_duration_vt == VideoTimestamp(min_speed_duration).vt

\* max_speed_duration = VideoTimestamp(max_speed_duration)
max_speed_duration_vt == VideoTimestamp(max_speed_duration).vt

\* every value random_duration can take: each field drawn independently by
\* randint(min.field, max.field), bounds included
RandomDurations ==
    LET lo == min_speed_duration_vt
        hi == max_speed_duration_vt
    IN  { FromFields("|", h, m, s, "positive") :
            h \in lo.hour..hi.hour, m \in lo.minute..hi.minute,
            s \in lo.second..hi.second }

\* get_vel(a, b) when the random draw is random_duration.  err is "none" or the
\* kind of the exception raised.  The operands of the final division are
\* non-negative, so int(x / y) is the floor of the quotient.
get_vel(a, b, random_duration) ==
    IF total_seconds(minus(a, b)) < 0
    THEN [err |-> "ValueError", vel |-> 0]
    ELSE IF le(minus(b, a), min_speed_duration_vt)
    THEN [err |-> "none", vel |-> 1]
    ELSE IF total_seconds(random_duration) = 0
    THEN [err |-> "ZeroDivisionError", vel |-> 0]
    ELSE [err |-> "none",
          vel |-> total_seconds(minus(b, a)) \div total_seconds(random_duration)]

Min(x, y) == IF x <= y THEN x ELSE y

\* the value of a command local before it is built
NoCmd == [output |-> <<>>, start |-> <<>>, to |-> <<>>, velocity |-> -1]

\* ffmpeg_cmd(input, output, start, to, velocity): pts = round(1 / velocity, 2)
\* raises ZeroDivisionError when velocity is 0.  The command keeps the arguments
\* that vary; the filter text is a function of velocity and the input path is
\* the same in every command.
ffmpeg_cmd(output, start, to, velocity) ==
    IF velocity = 0
    THEN [err |-> "ZeroDivisionError", cmd |-> NoCmd]
    ELSE [err |-> "none",
          cmd |-> [output |-> output, start |-> start, to |-> to,
                   velocity |-> velocity]]


----------------------------------------------------------------------------
(* Values of the variables a specification does not use *)

Pending == [err |-> "pending", vt |-> NoVt]

PendingVel == [err |-> "pending", vel |-> 0]

ProcIdle ==
    /\ timestamps = <<>>
    /\ rest_time_arg = <<>>
    /\ files = {}
    /\ pc = "idle"
    /\ i = 0
    /\ rest_time = NoVt
    /\ vt1 = NoVt
    /\ vt2 = NoVt
    /\ vel = 0
    /\ rest_to_ts = <<>>
    /\ cmd_rest_seg = NoCmd
    /\ cmd_vel_seg = NoCmd
    /\ calls = <<>>
    /\ checks = <<>>
    /\ error = "none"

ParseIdle == text = <<>> /\ parsed = Pending

ArithIdle == ta = NoVt /\ tb = NoVt /\ tdiff = NoVt /\ tsum = NoVt

VelIdle == gv1 = NoVt /\ gv2 = NoVt /\ gres = PendingVel

----------------------------------------------------------------------------
(* SpecParse: VideoTimestamp(text) for every text of the alphabet up to MaxLen *)

Alphabet == {"0", "1", ":", "+", "-", "a"}

Texts == UNION { [1..n -> Alphabet] : n \in 0..MaxLen }

InitParse ==
    /\ text \in Texts
    /\ parsed = Pending
    /\ ProcIdle /\ ArithIdle /\ VelIdle

Parse ==
    /\ parsed = Pending
    /\ parsed' = VideoTimestamp(text)
    /\ UNCHANGED <<text, procVars, arithVars, velVars>>

NextParse == Parse

SpecParse == InitParse /\ [][NextParse]_vars

----------------------------------------------------------------------------
(* SpecArith: (ta - tb) + tb.  The operands have the fields the parser can   *)
(* return: it accepts a signed field, so a field may be negative.            *)

ArithOperands ==
    { FromFields("|", h, m, s, "positive") :
        h \in 0..MaxHour, m \in (-1)..MaxMinute, s \in (-1)..MaxSecond }

InitArith ==
    /\ ta \in ArithOperands
    /\ tb \in ArithOperands
    /\ tdiff = NoVt
    /\ tsum = NoVt
    /\ ProcIdle /\ ParseIdle /\ VelIdle

\* ta - tb (__sub__ on a VideoTimestamp is minus)
Sub ==
    /\ tdiff = NoVt
    /\ tdiff' = minus(ta, tb)
    /\ UNCHANGED <<ta, tb, tsum, procVars, parseVars, velVars>>

\* (ta - tb) + tb (__add__ on a VideoTimestamp is plus)
Add ==
    /\ tdiff # NoVt
    /\ tsum = NoVt
    /\ tsum' = plus(tdiff, tb)
    /\ UNCHANGED <<ta, tb, tdiff, procVars, parseVars, velVars>>

NextArith == Sub \/ Add

SpecArith == InitArith /\ [][NextArith]_vars

----------------------------------------------------------------------------
(* SpecVel: get_vel(gv1, gv2) for every pair of timestamps up to MaxSeconds  *)
(* and every value of the random duration                                    *)

InitVel ==
    /\ gv1 \in { from_seconds(n) : n \in 0..MaxSeconds }
    /\ gv2 \in { from_seconds(n) : n \in 0..MaxSeconds }
    /\ gres = PendingVel
    /\ ProcIdle /\ ParseIdle /\ ArithIdle

GetVel ==
    /\ gres = PendingVel
    /\ \E random_duration \in RandomDurations :
           gres' = get_vel(gv1, gv2, random_duration)
    /\ UNCHANGED <<gv1, gv2, procVars, parseVars, arithVars>>

NextVel == GetVel

SpecVel == InitVel /\ [][NextVel]_vars


----------------------------------------------------------------------------
(* Spec: process_video(timestamps, rest_time)                                *)
(*                                                                           *)
(* pc is the position in process_video: "start" (lines 168-171), "plan"      *)
(* (173-206), "dispatch_vel" (207-208), "dispatch_rest" (213-214), "done"    *)
(* (the loop has ended) and "failed" (an exception has left the function;    *)
(* error is its kind).                                                       *)
(* The path {stem}_{i}_{k}{suffix} is the pair <<i, k>>.  The content of the  *)
(* output folder before the run is an input: whether a path exists is drawn  *)
(* when exists() first reads it, which is sound because the run reads each   *)
(* path once and writes it only after that.  files is the set of the paths   *)
(* the run has found or written.  calls is the log of the external           *)
(* invocations and checks the log of the existence checks.                   *)

StampTexts == {T_00_00_00, T_00_00_25, T_00_00_45, T_01_00_00, T_short}

RestTexts == {T_00_00_05, T_00_00_30, T_letters}

OutPaths == { <<k, seg>> : k \in 0..(MaxStamps - 2), seg \in {1, 2} }

Init ==
    /\ timestamps \in UNION { [1..n -> StampTexts] : n \in 1..MaxStamps }
    /\ rest_time_arg \in RestTexts
    /\ files = {}
    /\ pc = "start"
    /\ i = 0
    /\ rest_time = NoVt
    /\ vt1 = NoVt
    /\ vt2 = NoVt
    /\ vel = 0
    /\ rest_to_ts = <<>>
    /\ cmd_rest_seg = NoCmd
    /\ cmd_vel_seg = NoCmd
    /\ calls = <<>>
    /\ checks = <<>>
    /\ error = "none"
    /\ ParseIdle /\ ArithIdle /\ VelIdle

offset == VideoTimestamp(T_00_00_00).vt

\* an exception of this kind leaves process_video: nothing catches it
Raise(kind) ==
    /\ pc' = "failed"
    /\ error' = kind

\* the position after pair k has been handled (the for statement)
NextPair(k) == IF k < Len(timestamps) - 1 THEN "plan" ELSE "done"

Start ==
    /\ pc = "start"
    /\ LET r == VideoTimestamp(rest_time_arg)
       IN  IF r.err # "none"
           THEN /\ Raise(r.err)
                /\ UNCHANGED rest_time
           ELSE /\ rest_time' = r.vt
                /\ pc' = NextPair(0)
                /\ error' = error
    /\ UNCHANGED <<timestamps, rest_time_arg, files, i, vt1, vt2, vel,
                   rest_to_ts, cmd_rest_seg, cmd_vel_seg, calls, checks>>
    /\ UNCHANGED <<parseVars, arithVars, velVars>>

\* the end of the rest segment of the pair (a, b)
RestToTs(a, b, rt) ==
    IF total_seconds(minus(b, a)) < RestThreshold
    THEN b.timestamp
    ELSE plus(a, rt).timestamp

\* the velocity of the pair (a, b), g being what get_vel returned
VelOf(a, b, g) ==
    IF total_seconds(minus(b, a)) < RestThreshold THEN 1 ELSE Min(g, VelCap)

\* HasVelSeg with min_speed_duration as the threshold
HasVelSeg_min_speed(a, b) ==
    total_seconds(minus(b, a)) >= total_seconds(min_speed_duration_vt)

\* whether the accelerated command of the pair (a, b) is built
HasVelSeg(a, b) == total_seconds(minus(b, a)) > RestThreshold

\* every velocity get_vel(a, b) can return, over the random durations
VelChoices(a, b) ==
    { get_vel(a, b, random_duration) : random_duration \in RandomDurations }

\* lines 185-206, vel being min(get_vel(...), 70): the end of the rest
\* segment, the rest command and, for a pair that has one, the accelerated
\* command of pair i
PlanCommands(a, b, v, to, c) ==
    /\ vel' = v
    /\ rest_to_ts' = to
    /\ cmd_rest_seg' = ffmpeg_cmd(<<i, 1>>, a.timestamp, to, 1).cmd
    /\ IF ~HasVelSeg(a, b)
       THEN /\ pc' = "dispatch_rest"
            /\ UNCHANGED <<cmd_vel_seg, error>>
       ELSE IF c.err # "none"
       THEN /\ Raise(c.err)
            /\ UNCHANGED cmd_vel_seg
       ELSE /\ cmd_vel_seg' = c.cmd
            /\ pc' = "dispatch_vel"
            /\ error' = error

\* lines 183-206 for vt1 = a, vt2 = b and s = vt1 + rest_time
PlanSegments(a, b, s) ==
    /\ vt1' = a
    /\ vt2' = b
    /\ \E g \in VelChoices(s, b) :
         IF g.err # "none"
         THEN /\ Raise(g.err)
              /\ UNCHANGED <<vel, rest_to_ts, cmd_rest_seg, cmd_vel_seg>>
         ELSE PlanCommands(a, b, VelOf(a, b, g.vel), RestToTs(a, b, rest_time),
                           ffmpeg_cmd(<<i, 2>>, s.timestamp, b.timestamp,
                                      VelOf(a, b, g.vel)))

\* lines 176-206, p1 and p2 being what VideoTimestamp returns for the two
\* entries of pair i
PlanPair(p1, p2) ==
    IF p1.err # "none"
    THEN /\ Raise(p1.err)
         /\ UNCHANGED <<vt1, vt2, vel, rest_to_ts, cmd_rest_seg, cmd_vel_seg>>
    ELSE IF p2.err # "none"
    THEN /\ Raise(p2.err)
         /\ vt1' = minus(p1.vt, offset)
         /\ UNCHANGED <<vt2, vel, rest_to_ts, cmd_rest_seg, cmd_vel_seg>>
    ELSE PlanSegments(minus(p1.vt, offset), minus(p2.vt, offset),
                      plus(minus(p1.vt, offset), rest_time))

\* lines 173-206: the locals and the commands of pair i
Plan ==
    /\ pc = "plan"
    /\ PlanPair(VideoTimestamp(timestamps[i + 1]),
                VideoTimestamp(timestamps[i + 2]))
    /\ UNCHANGED <<timestamps, rest_time_arg, files, i, rest_time, calls, checks>>
    /\ UNCHANGED <<parseVars, arithVars, velVars>>

\* ShouldInvoke without the existence check
ShouldInvoke_always(exists) == TRUE

\* not out_file.exists()
ShouldInvoke(exists) == ~exists

\* Invoke with the exit status of the external tool ignored
Invoke_ignoring_status(cmd, next_pc) ==
    \E ok \in BOOLEAN :
        /\ calls' = Append(calls, [cmd |-> cmd, ok |-> ok])
        /\ files' = IF ok THEN files \cup {cmd.output} ELSE files
        /\ pc' = next_pc
        /\ error' = error

\* subprocess.check_output(cmd): the external tool runs once; it writes the
\* output file and returns 0, or it returns non-zero and CalledProcessError is
\* raised
Invoke(cmd, next_pc) ==
    \E ok \in BOOLEAN :
        /\ calls' = Append(calls, [cmd |-> cmd, ok |-> ok])
        /\ IF ok
           THEN /\ files' = files \cup {cmd.output}
                /\ pc' = next_pc
                /\ error' = error
           ELSE /\ files' = files
                /\ Raise("CalledProcessError")

\* if(not out_file.exists()): subprocess.check_output(cmd), exists being what
\* out_file.exists() returns
DispatchOn(cmd, next_pc, exists) ==
    /\ checks' = Append(checks, [output |-> cmd.output, existed |-> exists])
    /\ IF ShouldInvoke(exists)
       THEN Invoke(cmd, next_pc)
       ELSE /\ files' = files \cup {cmd.output}
            /\ pc' = next_pc
            /\ UNCHANGED <<calls, error>>

Dispatch(cmd, next_pc) ==
    \E exists \in (IF cmd.output \in files THEN {TRUE} ELSE BOOLEAN) :
        DispatchOn(cmd, next_pc, exists)

DispatchVel ==
    /\ pc = "dispatch_vel"
    /\ Dispatch(cmd_vel_seg, "dispatch_rest")
    /\ UNCHANGED <<timestamps, rest_time_arg, i, rest_time, vt1, vt2, vel,
                   rest_to_ts, cmd_rest_seg, cmd_vel_seg>>
    /\ UNCHANGED <<parseVars, arithVars, velVars>>

DispatchRest ==
    /\ pc = "dispatch_rest"
    /\ Dispatch(cmd_rest_seg, NextPair(i + 1))
    /\ i' = IF pc' = "failed" THEN i ELSE i + 1
    /\ UNCHANGED <<timestamps, rest_time_arg, rest_time, vt1, vt2, vel,
                   rest_to_ts, cmd_rest_seg, cmd_vel_seg>>
    /\ UNCHANGED <<parseVars, arithVars, velVars>>

Next == Start \/ Plan \/ DispatchVel \/ DispatchRest

Spec == Init /\ [][Next]_vars


----------------------------------------------------------------------------
(* Notions the claims are stated with *)

\* what VideoTimestamp returns for each text a list entry or rest_time can be
ParsedText == [t \in StampTexts \cup RestTexts |-> VideoTimestamp(t)]

\* VideoTimestamp(t) - offset for each text a list entry can be
ShiftedText == [t \in StampTexts |-> minus(VideoTimestamp(t).vt, offset)]

\* vt1 (k = j + 1) and vt2 (k = j + 2) of pair j, from the list
PairVt(k) == ShiftedText[timestamps[k]]

Pairs == 0..(Len(timestamps) - 2)

PairOk(j) ==
    /\ ParsedText[timestamps[j + 1]].err = "none"
    /\ ParsedText[timestamps[j + 2]].err = "none"

PairDuration(j) == total_seconds(minus(PairVt(j + 2), PairVt(j + 1)))

\* the positions of the log at which the external tool was invoked for out
CallsFor(out) == { k \in 1..Len(calls) : calls[k].cmd.output = out }

ChecksFor(out) == { n \in 1..Len(checks) : checks[n].output = out }

\* total_seconds of a canonical text
SecondsOf(txt) == total_seconds(VideoTimestamp(txt).vt)

\* a text that, after an optional leading + or -, splits into exactly three
\* colon-separated fields of digits
WellFormed(txt) ==
    LET body   == IF Len(txt) > 0 /\ txt[1] \in {"+", "-"} THEN Tail(txt) ELSE txt
        fields == Split(body)
    IN  /\ Len(fields) = 3
        /\ \A f \in 1..3 :
               /\ Len(fields[f]) > 0
               /\ \A k \in 1..Len(fields[f]) : IsDigit(fields[f][k])

----------------------------------------------------------------------------
(* Claims *)

\* C1: get_vel(vt1, vt2) fails with ValueError for every pair of timestamps
\* with vt1.total_seconds < vt2.total_seconds.
C1_FailsWhenFirstIsEarlier ==
    (gres # PendingVel /\ total_seconds(gv1) < total_seconds(gv2))
        => gres.err = "ValueError"

\* C2: every accelerated command process_video builds gets an integer
\* velocity between 1 and 70, so building it never divides by zero.
C2_VelocityFromOneToCap ==
    /\ error # "ZeroDivisionError"
    /\ pc = "dispatch_vel" => cmd_vel_seg.velocity \in 1..VelCap
    /\ \A k \in 1..Len(calls) : calls[k].cmd.velocity \in 1..VelCap

\* C3: a pair whose duration is not below 25 seconds (25 included) gets a rest
\* command vt1..(vt1+rest_time) at velocity 1 and an accelerated command
\* (vt1+rest_time)..vt2 at vel, the accelerated one having gone through its
\* dispatch when the rest one is about to.
C3_TwoSegmentsFromThreshold ==
    (pc = "dispatch_rest" /\ ~(total_seconds(minus(vt2, vt1)) < RestThreshold))
        => /\ cmd_rest_seg = [output |-> <<i, 1>>, start |-> vt1.timestamp,
                              to |-> plus(vt1, rest_time).timestamp,
                              velocity |-> 1]
           /\ cmd_vel_seg = [output |-> <<i, 2>>,
                             start |-> plus(vt1, rest_time).timestamp,
                             to |-> vt2.timestamp, velocity |-> vel]
           /\ ChecksFor(<<i, 2>>) # {}

\* what C4 says of a command c invoked for the pair (a, b)
ShortPairCall(c, a, b) ==
    total_seconds(minus(b, a)) < RestThreshold
        => c = [output |-> <<c.output[1], 1>>, start |-> a.timestamp,
                to |-> b.timestamp, velocity |-> 1]

\* C4: a pair whose duration is below 25 seconds gets exactly one command, the
\* rest command vt1..vt2 at velocity 1; no accelerated command is built or
\* dispatched for it, whatever get_vel returned.
C4_OneRestSegmentBelowThreshold ==
    /\ (pc \in {"dispatch_vel", "dispatch_rest"}
          /\ total_seconds(minus(vt2, vt1)) < RestThreshold)
        => /\ pc = "dispatch_rest"
           /\ vel = 1
           /\ cmd_rest_seg = [output |-> <<i, 1>>, start |-> vt1.timestamp,
                              to |-> vt2.timestamp, velocity |-> 1]
           /\ cmd_vel_seg.output # <<i, 2>>
    /\ \A n \in 1..Len(checks) :
           checks[n].output[2] = 2
               => ~(PairDuration(checks[n].output[1]) < RestThreshold)
    /\ \A k \in 1..Len(calls) :
           ShortPairCall(calls[k].cmd, PairVt(calls[k].cmd.output[1] + 1),
                         PairVt(calls[k].cmd.output[1] + 2))

\* C4 witness: the rest command of a pair shorter than 25 seconds is about to
\* be dispatched, for a pair on which get_vel can return more than 1.
C4_Witness ==
    /\ pc = "dispatch_rest"
    /\ total_seconds(minus(vt2, vt1)) < RestThreshold
    /\ \E random_duration \in RandomDurations :
           get_vel(plus(vt1, rest_time), vt2, random_duration).vel > 1

C6_SubtractThenAdd ==
    tsum # NoVt => total_seconds(tsum) = total_seconds(ta)

\* C6 as amended: (a - b) + b has the total_seconds of a exactly when
\* a.total_seconds >= b.total_seconds and a.total_seconds >= 0.
C6_SubtractThenAddOrdered ==
    tsum # NoVt =>
        (total_seconds(tsum) = total_seconds(ta)
            <=> (total_seconds(ta) >= total_seconds(tb)
                   /\ total_seconds(ta) >= 0))

\* C6 witness: (a - b) + b has been computed for a after b, b not zero.
C6_Witness ==
    /\ tsum # NoVt
    /\ total_seconds(ta) > total_seconds(tb)
    /\ total_seconds(tb) > 0
    /\ total_seconds(tsum) = total_seconds(ta)

\* C7: parsing a text that is not an optional sign and exactly three numeric
\* fields fails with ValueError: it returns no timestamp and raises no other
\* kind of error.
C7_MalformedIsValueError ==
    (parsed # Pending /\ ~WellFormed(text)) => parsed.err = "ValueError"

\* C8: the first error leaves process_video at once: a failed invocation is
\* the last invocation of the run, no command of a malformed pair or of a
\* later pair is invoked, and no destination is invoked twice.
C8_FirstErrorAborts ==
    /\ error # "none" => pc = "failed"
    /\ \A k \in 1..Len(calls) :
           ~calls[k].ok => /\ k = Len(calls)
                           /\ pc = "failed"
                           /\ error = "CalledProcessError"
    /\ \A out \in OutPaths : Cardinality(CallsFor(out)) <= 1
    /\ ParsedText[rest_time_arg].err # "none" => calls = <<>>
    /\ \A k \in 1..Len(calls) :
           \A j \in 0..calls[k].cmd.output[1] : PairOk(j)

\* C8 witness: the accelerated invocation of a pair has failed while the rest
\* output of that pair does not exist and a later pair remains.
C8_Witness ==
    /\ pc = "failed"
    /\ error = "CalledProcessError"
    /\ calls[Len(calls)].cmd.output = <<i, 2>>
    /\ <<i, 1>> \notin files
    /\ i + 1 \in Pairs

\* C9: after parsing a valid text the timestamp field is the regenerated form
\* {sign}{hour:02}:{minute:02}:{second:02}, the sign omitted only for the
\* unsigned tag.
C9_CanonicalIsRegenerated ==
    parsed.err = "none" =>
        parsed.vt.timestamp =
            FromFields(parsed.vt.type, parsed.vt.hour, parsed.vt.minute,
                       parsed.vt.second, "positive").timestamp

====
